---- MODULE Spec2Model ----
(***************************************************************************)
(* CSES project management (app.py): the SQLite tables, the repository     *)
(* functions over them, the lru_cache memoization of three reads, and the  *)
(* Streamlit session (login, sidebar, tabs).                               *)
(*                                                                         *)
(* State: the four tables that are written, the three memo caches, the     *)
(* clock, st.session_state (user, user_id, role, company_id, project_id)   *)
(* and the text of the st.error the last script run displayed.             *)
(*                                                                         *)
(* Abstractions, all stated where they are made:                           *)
(*  - free-text columns no condition of the code reads (description,       *)
(*    quote_number, project_number, representative_id, area, equipment,    *)
(*    kw, main_task, sub_task) are left out of the rows;                   *)
(*  - a date 'YYYY-MM-DD' is a positive integer (the day number), string   *)
(*    comparison of such dates being the order of the days;                *)
(*  - the REAL column progress is an exact fraction [num, den] in lowest   *)
(*    terms (IEEE rounding of done / total * 100 is not modelled);         *)
(*  - AUTOINCREMENT hands out an id above every id of the table; ids are   *)
(*    only ever used as references, never as counts.                       *)
(***************************************************************************)
EXTENDS Integers, FiniteSets, Sequences, TLC

VARIABLES companies, employees, projects, tasks,
          cache_companies, cache_employees, cache_projects,
          today,
          user, user_id, role, company_id, project_id,
          error

db      == <<companies, employees, projects, tasks>>
caches  == <<cache_companies, cache_employees, cache_projects>>
session == <<user, user_id, role, company_id, project_id>>
vars    == <<companies, employees, projects, tasks,
             cache_companies, cache_employees, cache_projects,
             today, user, user_id, role, company_id, project_id, error>>

(***************************************************************************)
(* Bounds of the model.                                                    *)
(***************************************************************************)
MaxCompanies == 1
MaxNewEmployees == 1
MaxProjects == 1
MaxTasks == 2
MaxRepoTasks == 1
MaxUiTasks == 1
MaxDate == 2
MaxWeight == 2
MaxSessionCompanies == 2

(***************************************************************************)
(* Python None / SQL NULL: 0 in integer columns (ids and day numbers start *)
(* at 1, and 0 is falsy like None), a reserved string in TEXT columns.     *)
(***************************************************************************)
None == 0
NoneStr == "<None>"

CompanyNamePool == <<"Acme", "Beta", "Gamma">>
CompanyNames == {CompanyNamePool[i] : i \in 1..MaxCompanies}
NewEmployeePool == <<"Bob", "Ann", "Eve">>
NewEmployeeNames == {NewEmployeePool[i] : i \in 1..MaxNewEmployees}
SeedNames == {"Jaco Kotze", "Craig Brooks"}
Roles == {"management", "site"}
ProjectNames == {"P1"}
Dates == 1..MaxDate

Max(S) == CHOOSE m \in S : \A x \in S : x <= m

\* id INTEGER PRIMARY KEY AUTOINCREMENT
NextId(table) == IF table = {} THEN 1 ELSE Max({r.id : r \in table}) + 1

RECURSIVE GCD(_, _)
GCD(a, b) == IF b = 0 THEN a ELSE GCD(b, a % b)

\* the REAL value n / d, d > 0
Frac(n, d) == [num |-> n \div GCD(n, d), den |-> d \div GCD(n, d)]

(***************************************************************************)
(* EMPLOYEES                                                               *)
(***************************************************************************)
\* mutant: INSERT OR REPLACE, the row of that name is replaced by the new one
add_employee_rows_Replace(emps, name, r, pin) ==
    {e \in emps : e.name # name}
       \cup {[id |-> (IF emps = {} THEN 1
                      ELSE (CHOOSE m \in {x.id : x \in emps} :
                              \A x \in emps : x.id <= m) + 1),
              name |-> name, active |-> 1, role |-> r, pin |-> pin]}

\* INSERT OR IGNORE INTO employees (name, role, pin): name is UNIQUE, active
\* defaults to 1
add_employee_rows(emps, name, r, pin) ==
    IF \E e \in emps : e.name = name
    THEN emps
    ELSE emps \cup {[id |-> NextId(emps), name |-> name, active |-> 1,
                     role |-> r, pin |-> pin]}

\* the two seed calls that end init_db
init_db_rows(emps) ==
    add_employee_rows(add_employee_rows(emps, "Jaco Kotze", "management", "1234"),
                      "Craig Brooks", "management", "5678")

\* SELECT id, name, role, pin FROM employees WHERE active=1
select_employees(emps) ==
    {[id |-> e.id, name |-> e.name, role |-> e.role, pin |-> e.pin] :
        e \in {x \in emps : x.active = 1}}

(***************************************************************************)
(* COMPANIES                                                               *)
(***************************************************************************)
\* INSERT OR IGNORE INTO companies (name): name is UNIQUE
add_company_rows(comps, name) ==
    IF \E c \in comps : c.name = name
    THEN comps
    ELSE comps \cup {[id |-> NextId(comps), name |-> name]}

\* SELECT id, name FROM companies
select_companies(comps) == {[id |-> c.id, name |-> c.name] : c \in comps}

\* mutant: Python's == in place of SQL's =, so that None equals None
SqlEq_PythonEq(a, b) == a = b

\* a comparison column = ? of SQL: never true when either side is NULL
SqlEq(a, b) == a # None /\ b # None /\ a = b

(***************************************************************************)
(* PROJECTS                                                                *)
(***************************************************************************)
\* INSERT INTO projects (company_id, name, ..., owner_user): progress and
\* archived take their defaults 0; company_id is only NOT NULL, no FOREIGN KEY
add_project_rows(projs, cid, name, owner) ==
    IF cid = None
    THEN projs      \* sqlite3.IntegrityError: NOT NULL constraint failed
    ELSE projs \cup {[id |-> NextId(projs), company_id |-> cid, name |-> name,
                      owner_user |-> owner, progress |-> Frac(0, 1),
                      archived |-> 0]}

\* SELECT id, name, progress, owner_user FROM projects
\* WHERE company_id=? AND archived=0
select_projects_by_company(projs, cid) ==
    {[id |-> p.id, name |-> p.name, progress |-> p.progress,
      owner_user |-> p.owner_user] :
        p \in {x \in projs : SqlEq(x.company_id, cid) /\ x.archived = 0}}

\* SELECT COUNT(*) FROM tasks WHERE project_id=? AND archived=0
count_tasks(ts, pid) ==
    Cardinality({t \in ts : SqlEq(t.project_id, pid) /\ t.archived = 0})

RECURSIVE sum_completed_of(_)
sum_completed_of(rows) ==
    IF rows = {} THEN 0
    ELSE LET t == CHOOSE x \in rows : TRUE
         IN  t.completed + sum_completed_of(rows \ {t})

\* SELECT SUM(completed) FROM tasks WHERE project_id=? AND archived=0:
\* NULL over no rows
sum_completed(ts, pid) ==
    LET rows == {t \in ts : SqlEq(t.project_id, pid) /\ t.archived = 0}
    IN  IF rows = {} THEN None ELSE sum_completed_of(rows)

\* mutant: the WHERE project_id=? is missing, every task of the table counts
progress_of_AllTasks(ts, pid) ==
    IF ts = {} THEN Frac(0, 1)
    ELSE Frac(Cardinality({t \in ts : t.completed = 1}) * 100, Cardinality(ts))

\* progress = 0; if total and total > 0: progress = (done or 0) / total * 100
progress_of(ts, pid) ==
    LET total == count_tasks(ts, pid)
        done  == sum_completed(ts, pid)
    IN  IF total # None /\ total > 0
        THEN Frac((IF done # None THEN done ELSE 0) * 100, total)
        ELSE Frac(0, 1)

\* UPDATE projects SET progress=? WHERE id=?
recalc_project_progress_rows(projs, ts, pid) ==
    {IF SqlEq(p.id, pid) THEN [p EXCEPT !.progress = progress_of(ts, pid)] ELSE p :
        p \in projs}

(***************************************************************************)
(* TASKS                                                                   *)
(***************************************************************************)
\* INSERT INTO tasks (project_id, ..., assigned_to, due_date, comments,
\* photo_path): completed and archived default to 0, completed_date to NULL;
\* project_id is only NOT NULL, assigned_to has no constraint
insert_task_rows(ts, pid, assigned_to, due_date, comments, photo_path) ==
    IF pid = None
    THEN ts         \* sqlite3.IntegrityError: NOT NULL constraint failed
    ELSE ts \cup {[id |-> NextId(ts), project_id |-> pid,
                   assigned_to |-> assigned_to, due_date |-> due_date,
                   completed |-> 0, completed_date |-> None, archived |-> 0,
                   comments |-> comments, photo_path |-> photo_path]}

\* int(completed)
int(b) == IF b THEN 1 ELSE 0

\* mutant: the date is written on every toggle and never cleared
toggle_task_completed_rows_KeepDate(ts, tid, completed, now) ==
    {IF t.id = tid
     THEN [t EXCEPT !.completed = IF completed THEN 1 ELSE 0,
                    !.completed_date = now]
     ELSE t : t \in ts}

\* UPDATE tasks SET completed=?, completed_date=? WHERE id=?, the date being
\* datetime.now() when completed and None otherwise
toggle_task_completed_rows(ts, tid, completed, now) ==
    {IF SqlEq(t.id, tid)
     THEN [t EXCEPT !.completed = int(completed),
                    !.completed_date = IF completed THEN now ELSE None]
     ELSE t : t \in ts}

\* UPDATE tasks SET comments=? WHERE id=?
update_task_comments_rows(ts, tid, comments) ==
    {IF SqlEq(t.id, tid) THEN [t EXCEPT !.comments = comments] ELSE t : t \in ts}

\* UPDATE tasks SET photo_path=? WHERE id=?
update_task_photo_rows(ts, tid, photo_path) ==
    {IF SqlEq(t.id, tid) THEN [t EXCEPT !.photo_path = photo_path] ELSE t : t \in ts}

\* UPDATE tasks SET due_date=? WHERE id=?
update_task_due_date_rows(ts, tid, due_date) ==
    {IF SqlEq(t.id, tid) THEN [t EXCEPT !.due_date = due_date] ELSE t : t \in ts}

\* e.name of LEFT JOIN employees e ON t.assigned_to = e.id (NULL without match)
employee_name(emps, eid) ==
    IF \E e \in emps : SqlEq(eid, e.id)
    THEN (CHOOSE e \in emps : SqlEq(eid, e.id)).name
    ELSE NoneStr

\* get_project_tasks: tasks t LEFT JOIN employees e WHERE t.project_id=? AND
\* t.archived=0, and for a caller who is not management AND t.assigned_to = ?
get_project_tasks(ts, emps, pid, uid, is_management) ==
    {[id |-> t.id, due_date |-> t.due_date, completed |-> t.completed,
      completed_date |-> t.completed_date,
      assigned_to |-> employee_name(emps, t.assigned_to),
      comments |-> t.comments, photo_path |-> t.photo_path] :
        t \in {x \in ts : /\ SqlEq(x.project_id, pid)
                          /\ x.archived = 0
                          /\ (is_management \/ SqlEq(x.assigned_to, uid))}}

\* get_task_schedule: tasks t JOIN projects p JOIN companies c LEFT JOIN
\* employees e WHERE t.completed = 0, for a caller who is not management
\* AND t.assigned_to = ?, and with a target_date AND t.due_date = ?
get_task_schedule(ts, projs, comps, emps, uid, is_management, target_date) ==
    {[id |-> t.id, due_date |-> t.due_date,
      employee |-> employee_name(emps, t.assigned_to)] :
        t \in {x \in ts :
                /\ \E p \in projs : /\ SqlEq(x.project_id, p.id)
                                    /\ \E c \in comps : SqlEq(p.company_id, c.id)
                /\ x.completed = 0
                /\ (is_management \/ SqlEq(x.assigned_to, uid))
                /\ (target_date # None => SqlEq(x.due_date, target_date))}}

\* the query of my_tasks: tasks t JOIN projects p JOIN employees e ON
\* t.assigned_to = e.id WHERE e.id = ? AND t.completed = 0
my_tasks_query(ts, projs, emps, uid) ==
    {[id |-> t.id, due_date |-> t.due_date, completed |-> t.completed,
      completed_date |-> t.completed_date,
      comments |-> t.comments, photo_path |-> t.photo_path] :
        t \in {x \in ts :
                /\ \E p \in projs : SqlEq(x.project_id, p.id)
                /\ \E e \in emps : SqlEq(x.assigned_to, e.id) /\ SqlEq(e.id, uid)
                /\ x.completed = 0}}

(***************************************************************************)
(* lru_cache: a memo of at most one entry per argument tuple; nothing in   *)
(* the file ever calls cache_clear.  A cache of a function without         *)
(* arguments is <<>> (miss) or <<rows>>; the cache of                      *)
(* get_projects_by_company is the set of [key, rows] of the company ids    *)
(* asked so far (far fewer keys than maxsize=32, so nothing is evicted).   *)
(***************************************************************************)
Memo(cache, fresh) == IF cache = <<>> THEN fresh ELSE cache[1]

\* what get_companies() returns in this state
get_companies_result == Memo(cache_companies, select_companies(companies))

\* what get_employees() returns in this state
get_employees_result == Memo(cache_employees, select_employees(employees))

\* what get_projects_by_company(cid) returns in this state
get_projects_by_company_result(cid) ==
    IF \E m \in cache_projects : m.key = cid
    THEN (CHOOSE m \in cache_projects : m.key = cid).rows
    ELSE select_projects_by_company(projects, cid)

TypeOK ==
    /\ \A c \in companies : c.id >= 1
    /\ \A e \in employees : e.id >= 1 /\ e.role \in Roles
    /\ today \in Dates

Init ==
    /\ companies = {}
    /\ employees = init_db_rows({})
    /\ projects = {}
    /\ tasks = {}
    /\ cache_companies = <<>>
    /\ cache_employees = <<>>
    /\ cache_projects = {}
    /\ today = 1
    /\ user = NoneStr
    /\ user_id = None
    /\ role = NoneStr
    /\ company_id = None
    /\ project_id = None
    /\ error = ""

(***************************************************************************)
(* The repository functions as calls of one process.                       *)
(***************************************************************************)
init_db ==
    /\ employees' = init_db_rows(employees)
    /\ UNCHANGED <<companies, projects, tasks, caches, today, session, error>>

add_company(name) ==
    /\ companies' = add_company_rows(companies, name)
    /\ UNCHANGED <<employees, projects, tasks, caches, today, session, error>>

get_companies ==
    /\ cache_companies' = <<get_companies_result>>
    /\ UNCHANGED <<db, cache_employees, cache_projects, today, session, error>>

add_employee(name, r, pin) ==
    /\ employees' = add_employee_rows(employees, name, r, pin)
    /\ UNCHANGED <<companies, projects, tasks, caches, today, session, error>>

get_employees ==
    /\ cache_employees' = <<get_employees_result>>
    /\ UNCHANGED <<db, cache_companies, cache_projects, today, session, error>>

add_project(cid, name, owner) ==
    /\ projects' = add_project_rows(projects, cid, name, owner)
    /\ UNCHANGED <<companies, employees, tasks, caches, today, session, error>>

get_projects_by_company(cid) ==
    /\ cache_projects' =
          {m \in cache_projects : m.key # cid}
             \cup {[key |-> cid, rows |-> get_projects_by_company_result(cid)]}
    /\ UNCHANGED <<db, cache_companies, cache_employees, today, session, error>>

recalc_project_progress(pid) ==
    /\ projects' = recalc_project_progress_rows(projects, tasks, pid)
    /\ UNCHANGED <<companies, employees, tasks, caches, today, session, error>>

insert_task(pid, assigned_to, due_date, comments, photo_path) ==
    /\ tasks' = insert_task_rows(tasks, pid, assigned_to, due_date, comments, photo_path)
    /\ UNCHANGED <<companies, employees, projects, caches, today, session, error>>

toggle_task_completed(tid, completed) ==
    /\ tasks' = toggle_task_completed_rows(tasks, tid, completed, today)
    /\ UNCHANGED <<companies, employees, projects, caches, today, session, error>>

update_task_comments(tid, comments) ==
    /\ tasks' = update_task_comments_rows(tasks, tid, comments)
    /\ UNCHANGED <<companies, employees, projects, caches, today, session, error>>

update_task_photo(tid, photo_path) ==
    /\ tasks' = update_task_photo_rows(tasks, tid, photo_path)
    /\ UNCHANGED <<companies, employees, projects, caches, today, session, error>>

update_task_due_date(tid, due_date) ==
    /\ tasks' = update_task_due_date_rows(tasks, tid, due_date)
    /\ UNCHANGED <<companies, employees, projects, caches, today, session, error>>

\* datetime.now() moves on
Tick ==
    /\ today < MaxDate
    /\ today' = today + 1
    /\ UNCHANGED <<db, caches, session, error>>

NamesNext ==
    \/ init_db
    \/ \E n \in CompanyNames : add_company(n)
    \/ get_companies
    \/ \E n \in SeedNames \cup NewEmployeeNames, r \in Roles, p \in {NoneStr, "0000", "1234"} :
          add_employee(n, r, p)
    \/ get_employees

\* An employees table made by an earlier version of the file (the base table
\* has no role and no pin; ALTER TABLE of init_db adds them as 'site' and NULL):
\* empty, or holding a row with the name of a seed employee.
LegacyEmployees ==
    {{}, {[id |-> 1, name |-> "Jaco Kotze", active |-> 1, role |-> "site",
           pin |-> NoneStr]}}

\* the state after init_db on a new or on an earlier database file
NamesInit ==
    /\ companies = {}
    /\ \E old \in LegacyEmployees : employees = init_db_rows(old)
    /\ projects = {}
    /\ tasks = {}
    /\ cache_companies = <<>>
    /\ cache_employees = <<>>
    /\ cache_projects = {}
    /\ today = 1
    /\ user = NoneStr
    /\ user_id = None
    /\ role = NoneStr
    /\ company_id = None
    /\ project_id = None
    /\ error = ""

NamesSpec == NamesInit /\ [][NamesNext]_vars

(***************************************************************************)
(* Any sequence of calls of the repository functions on companies,         *)
(* employees, projects and the progress of a project, with arguments that  *)
(* include ids of no row and None.                                         *)
(***************************************************************************)
CompanyIdArgs == 0..(MaxCompanies + 1)
ProjectIdArgs == 0..(MaxProjects + 1)
TaskIdArgs == 1..(MaxTasks + 1)
\* None, the first seed employee, the first added employee (or no row)
EmployeeIdArgs == {None, 1, 3}

RepoNext ==
    \/ \E n \in CompanyNames : add_company(n)
    \/ get_companies
    \/ \E n \in NewEmployeeNames : add_employee(n, "site", NoneStr)
    \/ get_employees
    \/ \E cid \in CompanyIdArgs, n \in ProjectNames :
          /\ Cardinality(projects) < MaxProjects
          /\ add_project(cid, n, "Jaco Kotze")
    \/ \E cid \in CompanyIdArgs : get_projects_by_company(cid)
    \/ \E pid \in ProjectIdArgs, a \in {None, 3} :
          /\ Cardinality(tasks) < MaxRepoTasks
          /\ insert_task(pid, a, 1, "", "")
    \/ \E tid \in 1..MaxRepoTasks, c \in BOOLEAN : toggle_task_completed(tid, c)
    \/ \E pid \in ProjectIdArgs : recalc_project_progress(pid)

RepoSpec == Init /\ [][RepoNext]_vars

(***************************************************************************)
(* Any sequence of calls that write the tasks of projects and recompute    *)
(* the progress of a project.                                              *)
(***************************************************************************)
ProgressNext ==
    \/ \E n \in ProjectNames :
          /\ Cardinality(projects) < MaxProjects
          /\ add_project(1, n, "Jaco Kotze")
    \/ \E pid \in 1..(MaxProjects + 1), a \in {None, 1} :
          /\ Cardinality(tasks) < MaxTasks
          /\ insert_task(pid, a, 1, "", "")
    \/ \E tid \in TaskIdArgs, c \in BOOLEAN : toggle_task_completed(tid, c)
    \/ \E pid \in ProjectIdArgs : recalc_project_progress(pid)

ProgressSpec == Init /\ [][ProgressNext]_vars

(***************************************************************************)
(* Any sequence of inserts, toggles and updates of tasks, with the clock   *)
(* moving on.                                                              *)
(***************************************************************************)
CompletionNext ==
    \/ /\ Cardinality(tasks) < MaxTasks
       /\ insert_task(1, None, 1, "", "")
    \/ \E tid \in TaskIdArgs, c \in BOOLEAN : toggle_task_completed(tid, c)
    \/ \E tid \in TaskIdArgs : update_task_comments(tid, "ok")
    \/ \E tid \in TaskIdArgs : update_task_photo(tid, "photos/task.jpg")
    \/ \E tid \in TaskIdArgs : update_task_due_date(tid, MaxDate)
    \/ Tick

CompletionSpec == Init /\ [][CompletionNext]_vars

(***************************************************************************)
(* Any sequence of calls that make the rows the task listings join and     *)
(* filter: companies, projects, tasks open and completed.                  *)
(***************************************************************************)
ListingNext ==
    \/ \E n \in CompanyNames : add_company(n)
    \/ \E n \in ProjectNames :
          /\ Cardinality(projects) < MaxProjects
          /\ add_project(1, n, "Jaco Kotze")
    \/ \E pid \in 1..MaxProjects, a \in {None, 1, 2}, d \in {1, MaxDate} :
          /\ Cardinality(tasks) < MaxTasks
          /\ insert_task(pid, a, d, "", "")
    \/ \E tid \in TaskIdArgs, c \in BOOLEAN : toggle_task_completed(tid, c)

ListingSpec == Init /\ [][ListingNext]_vars

(***************************************************************************)
(* The Streamlit application.  Every interaction (a button, a selectbox, a *)
(* checkbox, a text or date input, an upload) runs the script once from    *)
(* the top, and st.rerun() ends a run; one action below is one such run    *)
(* with the widget values as its inputs.  A run executes the whole file:   *)
(* it calls init_db() and defines the memoized functions anew, so a memo   *)
(* made in one run is never read in another, and within a run no memoized  *)
(* read follows a write; the runs therefore read the tables.  The values   *)
(* Streamlit keeps for widgets between runs are not modelled: a selectbox  *)
(* value is any of its options, in every run.                              *)
(***************************************************************************)
EnteredPins == {"", "0000", "1234", "5678"}
PhotoPaths == <<"photos/task_1_site.jpg", "photos/task_2_site.jpg",
                "photos/task_3_site.jpg", "photos/task_4_site.jpg">>

\* employee_id_from_name: the id of the row of get_employees() with that name
employee_id_from_name(rows, name) ==
    IF \E e \in rows : e.name = name
    THEN (CHOOSE e \in rows : e.name = name).id
    ELSE None

\* mutant: the test ename == name is missing, the first row is returned
get_employee_details_AnyRow(rows, name) ==
    IF rows # {}
    THEN LET e == CHOOSE x \in rows : \A y \in rows : x.id <= y.id
         IN  [eid |-> e.id, role |-> e.role, pin |-> e.pin]
    ELSE [eid |-> None, role |-> NoneStr, pin |-> NoneStr]

\* get_employee_details: (id, role, pin) of the row with that name, else
\* (None, None, None)
get_employee_details(rows, name) ==
    IF \E e \in rows : e.name = name
    THEN LET e == CHOOSE x \in rows : x.name = name
         IN  [eid |-> e.id, role |-> e.role, pin |-> e.pin]
    ELSE [eid |-> None, role |-> NoneStr, pin |-> NoneStr]

\* users = [name for ... in get_employees()]; if not users: users = ["admin"]
login_users(rows) == IF rows = {} THEN {"admin"} ELSE {e.name : e \in rows}

\* login_page, the Login button pressed with a selected user and a PIN
login_page(u, pin) ==
    /\ user = NoneStr
    /\ employees' = init_db_rows(employees)
    /\ u \in login_users(select_employees(employees'))
    /\ LET d == get_employee_details(select_employees(employees'), u)
       IN  IF u # "" /\ pin # ""
           THEN IF pin = d.pin
                THEN /\ user' = u
                     /\ user_id' = d.eid
                     /\ role' = d.role
                     /\ error' = ""
                ELSE /\ error' = "Invalid PIN"
                     /\ UNCHANGED <<user, user_id, role>>
           ELSE /\ error' = "Select user and enter PIN"
                /\ UNCHANGED <<user, user_id, role>>
    /\ UNCHANGED <<companies, projects, tasks, caches, today, company_id, project_id>>

\* mutant: the role test is missing, every logged-in user passes for management
is_management_AnyUser == user # NoneStr

\* is_management = st.session_state.role == 'management'
is_management == role = "management"

\* the Logout button of the sidebar: the run ends before the selectboxes
Logout ==
    /\ user # NoneStr
    /\ employees' = init_db_rows(employees)
    /\ user' = NoneStr
    /\ user_id' = None
    /\ role' = NoneStr
    /\ error' = ""
    /\ UNCHANGED <<companies, projects, tasks, caches, today, company_id, project_id>>

\* company_names = [name for _, name in get_companies()]: the options of the
\* company selectbox (no option: the selectbox returns None)
company_names == {c.name : c \in select_companies(companies)} \cup {NoneStr}

\* the values company_id can take in a run: the id of a company, or the one
\* the session holds
company_ids == {c.id : c \in select_companies(companies)} \cup {company_id}

\* selected_company = st.selectbox(..., company_names);
\* if selected_company: company_id = next(id ... if name == selected_company)
SidebarCompany(sel, cid) ==
    IF companies = {}
    THEN sel = NoneStr /\ cid = company_id
    ELSE /\ sel \in {c.name : c \in select_companies(companies)}
         /\ cid = (CHOOSE c \in select_companies(companies) : c.name = sel).id

\* if company_id: selected_project = st.selectbox(..., project_names);
\* if selected_project: project_id = next(id ... if name == selected_project);
\* which of several rows of one name ORDER BY name puts first is not fixed
SidebarProject(cid, sel, pid) ==
    LET rows == select_projects_by_company(projects, cid)
    IN  IF cid = None \/ rows = {}
        THEN sel = NoneStr /\ pid = project_id
        ELSE /\ sel \in {r.name : r \in rows}
             /\ \E r \in rows : r.name = sel /\ pid = r.id

\* a run of main_app in which no button is pressed and no task widget changed
main_app ==
    /\ user # NoneStr
    /\ employees' = init_db_rows(employees)
    /\ \E selc \in company_names, selp \in ProjectNames \cup {NoneStr},
          cid \in company_ids, pid \in 0..MaxProjects :
          /\ SidebarCompany(selc, cid)
          /\ SidebarProject(cid, selp, pid)
          /\ company_id' = cid
          /\ project_id' = pid
    /\ error' = ""
    /\ UNCHANGED <<companies, projects, tasks, caches, today, user, user_id, role>>

\* the Add Company button: if new_company: add_company(new_company); st.rerun()
AddCompany(new_company) ==
    /\ user # NoneStr
    /\ is_management
    /\ employees' = init_db_rows(employees)
    /\ \E selc \in company_names, cid \in company_ids :
          /\ SidebarCompany(selc, cid)
          /\ company_id' = cid
    /\ companies' = IF new_company # ""
                    THEN add_company_rows(companies, new_company)
                    ELSE companies
    /\ error' = ""
    /\ UNCHANGED <<projects, tasks, caches, today, user, user_id, role, project_id>>

\* the Add Project button: add_project(company_id, proj_name, ..., owner) with
\* owner = st.session_state.user; st.rerun()
AddProject(proj_name) ==
    /\ user # NoneStr
    /\ is_management
    /\ employees' = init_db_rows(employees)
    /\ \E selc \in company_names, selp \in ProjectNames \cup {NoneStr},
          cid \in company_ids, pid \in 0..MaxProjects :
          /\ SidebarCompany(selc, cid)
          /\ SidebarProject(cid, selp, pid)
          /\ cid # None
          /\ company_id' = cid
          /\ project_id' = pid
          /\ projects' = add_project_rows(projects, cid, proj_name, user)
    /\ error' = ""
    /\ UNCHANGED <<companies, tasks, caches, today, user, user_id, role>>

\* Manage Employees, the Add button: if new_emp and new_pin: add_employee(...);
\* st.rerun()
AddEmployee(new_emp, new_role, new_pin) ==
    /\ user # NoneStr
    /\ is_management
    /\ \E selc \in company_names, selp \in ProjectNames \cup {NoneStr},
          cid \in company_ids, pid \in 0..MaxProjects :
          /\ SidebarCompany(selc, cid)
          /\ SidebarProject(cid, selp, pid)
          /\ company_id' = cid
          /\ project_id' = pid
    /\ employees' = IF new_emp # "" /\ new_pin # ""
                    THEN add_employee_rows(init_db_rows(employees),
                                           new_emp, new_role, new_pin)
                    ELSE init_db_rows(employees)
    /\ error' = ""
    /\ UNCHANGED <<companies, projects, tasks, caches, today, user, user_id, role>>

\* scope_builder, the Add Task button: the employee is one of get_employees();
\* insert_task(project_id, ..., assigned_id, due_date) and then
\* recalc_project_progress(project_id); the run goes on without st.rerun()
AddTask(employee, due_date) ==
    /\ user # NoneStr
    /\ is_management
    /\ employees' = init_db_rows(employees)
    /\ \E selc \in company_names, selp \in ProjectNames \cup {NoneStr},
          cid \in company_ids, pid \in 0..MaxProjects :
          /\ SidebarCompany(selc, cid)
          /\ SidebarProject(cid, selp, pid)
          /\ pid # None
          /\ company_id' = cid
          /\ project_id' = pid
          /\ employee \in {e.name : e \in select_employees(employees')}
          /\ LET assigned_id == employee_id_from_name(select_employees(employees'),
                                                      employee)
             IN  IF assigned_id = None
                 THEN /\ error' = "Employee not found."
                      /\ UNCHANGED <<tasks, projects>>
                 ELSE /\ tasks' = insert_task_rows(tasks, pid, assigned_id, due_date,
                                                   "", "")
                      /\ projects' = recalc_project_progress_rows(projects, tasks', pid)
                      /\ error' = ""
    /\ UNCHANGED <<companies, caches, today, user, user_id, role>>

\* the row of task tid
task_row(tid) == CHOOSE t \in tasks : t.id = tid

\* a run of main_app in which a widget of task tid of the Active Tasks tab
\* changed: the task is one of get_project_tasks(project_id, user_id,
\* is_management); the handler of the widget writes tasks
ActiveTasksRun(tid) ==
    /\ user # NoneStr
    /\ employees' = init_db_rows(employees)
    /\ \E selc \in company_names, selp \in ProjectNames \cup {NoneStr},
          cid \in company_ids, pid \in 0..MaxProjects :
          /\ SidebarCompany(selc, cid)
          /\ SidebarProject(cid, selp, pid)
          /\ pid # None
          /\ company_id' = cid
          /\ project_id' = pid
          /\ \E task \in get_project_tasks(tasks, employees', pid, user_id, is_management) :
                task.id = tid
    /\ error' = ""
    /\ UNCHANGED <<companies, projects, caches, today, user, user_id, role>>

\* active_tasks, the Completed checkbox: completed != bool(comp), so
\* toggle_task_completed(tid, completed); st.rerun()
ActiveToggle(tid) ==
    /\ ActiveTasksRun(tid)
    /\ tasks' = toggle_task_completed_rows(tasks, tid, task_row(tid).completed = 0,
                                           today)

\* active_tasks, the Comments text area: update_task_comments(tid, new_comments)
\* when new_comments != (comments or ""); st.rerun()
ActiveComments(tid, new_comments) ==
    /\ ActiveTasksRun(tid)
    /\ new_comments # (IF task_row(tid).comments = NoneStr THEN ""
                       ELSE task_row(tid).comments)
    /\ tasks' = update_task_comments_rows(tasks, tid, new_comments)

\* active_tasks, the photo upload: update_task_photo(tid,
\* f"photos/task_{tid}_{uploaded_file.name}"); st.rerun()
ActivePhoto(tid) ==
    /\ ActiveTasksRun(tid)
    /\ tasks' = update_task_photo_rows(tasks, tid, PhotoPaths[tid])

\* active_tasks, the Update Due Date input of management:
\* update_task_due_date(tid, new_due) when str(new_due) != due; st.rerun()
ActiveDueDate(tid, new_due) ==
    /\ is_management
    /\ ActiveTasksRun(tid)
    /\ new_due # task_row(tid).due_date
    /\ tasks' = update_task_due_date_rows(tasks, tid, new_due)

\* a run of main_app in which a widget of task tid of the My Tasks tab
\* changed: the task is one of the open tasks assigned to user_id
MyTasksRun(tid) ==
    /\ user # NoneStr
    /\ employees' = init_db_rows(employees)
    /\ \E selc \in company_names, selp \in ProjectNames \cup {NoneStr},
          cid \in company_ids, pid \in 0..MaxProjects :
          /\ SidebarCompany(selc, cid)
          /\ SidebarProject(cid, selp, pid)
          /\ company_id' = cid
          /\ project_id' = pid
    /\ \E task \in my_tasks_query(tasks, projects, employees', user_id) : task.id = tid
    /\ error' = ""
    /\ UNCHANGED <<companies, projects, caches, today, user, user_id, role>>

\* my_tasks, the Mark Complete checkbox: toggle_task_completed(tid, completed);
\* st.rerun()
MyToggle(tid) ==
    /\ MyTasksRun(tid)
    /\ tasks' = toggle_task_completed_rows(tasks, tid, task_row(tid).completed = 0,
                                           today)

\* my_tasks, the Comments text area
MyComments(tid, new_comments) ==
    /\ MyTasksRun(tid)
    /\ new_comments # (IF task_row(tid).comments = NoneStr THEN ""
                       ELSE task_row(tid).comments)
    /\ tasks' = update_task_comments_rows(tasks, tid, new_comments)

\* my_tasks, the photo upload
MyPhoto(tid) ==
    /\ MyTasksRun(tid)
    /\ tasks' = update_task_photo_rows(tasks, tid, PhotoPaths[tid])

Next ==
    \/ \E u \in SeedNames \cup NewEmployeeNames \cup {"admin"}, pin \in EnteredPins :
          login_page(u, pin)
    \/ Logout
    \/ main_app
    \/ \E n \in CompanyNames : AddCompany(n)
    \/ \E n \in ProjectNames :
          /\ Cardinality(projects) < MaxProjects
          /\ AddProject(n)
    \/ \E n \in NewEmployeeNames, r \in Roles : AddEmployee(n, r, "0000")
    \/ \E e \in SeedNames \cup NewEmployeeNames, d \in Dates :
          /\ Cardinality(tasks) < MaxUiTasks
          /\ AddTask(e, d)
    \/ \E tid \in 1..MaxUiTasks : ActiveToggle(tid)
    \/ \E tid \in 1..MaxUiTasks : ActiveComments(tid, "ok")
    \/ \E tid \in 1..MaxUiTasks : ActivePhoto(tid)
    \/ \E tid \in 1..MaxUiTasks, d \in Dates : ActiveDueDate(tid, d)
    \/ \E tid \in 1..MaxUiTasks : MyToggle(tid)
    \/ \E tid \in 1..MaxUiTasks : MyComments(tid, "ok")
    \/ \E tid \in 1..MaxUiTasks : MyPhoto(tid)

Spec == Init /\ [][Next]_vars

(***************************************************************************)
(* The login page and the sidebar alone: the runs that write employees,    *)
(* companies, projects and the session.                                    *)
(***************************************************************************)
LoginNext ==
    \/ \E u \in SeedNames \cup NewEmployeeNames \cup {"admin"}, pin \in EnteredPins :
          login_page(u, pin)
    \/ Logout
    \/ main_app
    \/ \E n \in CompanyNames : AddCompany(n)
    \/ \E n \in ProjectNames :
          /\ Cardinality(projects) < MaxProjects
          /\ AddProject(n)
    \/ \E n \in NewEmployeeNames, r \in Roles : AddEmployee(n, r, "0000")

LoginSpec == Init /\ [][LoginNext]_vars

(***************************************************************************)
(* Sessions of management and of site users about the tasks of projects:   *)
(* management builds one company, one project, one site employee and      *)
(* tasks; the site user works on the tasks the tabs list them.            *)
(***************************************************************************)
WritesNext ==
    \/ \E u \in {"Jaco Kotze", NewEmployeePool[1]}, pin \in {"0000", "1234"} :
          login_page(u, pin)
    \/ Logout
    \/ AddCompany(CompanyNamePool[1])
    \/ \E n \in ProjectNames :
          /\ projects = {}
          /\ AddProject(n)
    \/ AddEmployee(NewEmployeePool[1], "site", "0000")
    \/ \E e \in {"Jaco Kotze", NewEmployeePool[1]} :
          /\ Cardinality(tasks) < MaxTasks
          /\ AddTask(e, 1)
    \/ \E tid \in 1..MaxTasks : ~is_management /\ ActiveToggle(tid)
    \/ \E tid \in 1..MaxTasks : ~is_management /\ ActiveComments(tid, "ok")
    \/ \E tid \in 1..MaxTasks : ~is_management /\ ActivePhoto(tid)
    \/ \E tid \in 1..MaxTasks : ActiveDueDate(tid, MaxDate)
    \/ \E tid \in 1..MaxTasks : ~is_management /\ MyToggle(tid)
    \/ \E tid \in 1..MaxTasks : ~is_management /\ MyComments(tid, "ok")
    \/ \E tid \in 1..MaxTasks : ~is_management /\ MyPhoto(tid)

WritesSpec == Init /\ [][WritesNext]_vars

(***************************************************************************)
(* Sessions that move between companies: management adds companies and     *)
(* projects, users select a company and a project, log out and log in.     *)
(***************************************************************************)
SessionCompanyNames == {CompanyNamePool[i] : i \in 1..MaxSessionCompanies}

SessionNext ==
    \/ \E u \in SeedNames, pin \in {"1234", "5678"} : login_page(u, pin)
    \/ Logout
    \/ main_app
    \/ \E n \in SessionCompanyNames : AddCompany(n)
    \/ \E n \in ProjectNames :
          /\ Cardinality(projects) < MaxProjects
          /\ AddProject(n)

SessionSpec == Init /\ [][SessionNext]_vars

(***************************************************************************)
(* Progress of a project.                                                  *)
(***************************************************************************)
\* the non-archived tasks of project pid
TasksOf(ts, pid) == {t \in ts : t.project_id = pid /\ t.archived = 0}

RECURSIVE Sum(_, _)
\* the sum of f[id] over the ids in S
Sum(f, S) ==
    IF S = {} THEN 0
    ELSE LET x == CHOOSE y \in S : TRUE IN f[x] + Sum(f, S \ {x})

\* progress (a fraction) equals 100 * n / d
IsPercent(progress, n, d) == progress.num * d = 100 * n * progress.den

C4_CompletedDate ==
    [][/\ \A tid \in TaskIdArgs, c \in BOOLEAN :
             toggle_task_completed(tid, c) =>
                \A t \in tasks' :
                   t.id = tid =>
                      /\ t.completed = (IF c THEN 1 ELSE 0)
                      /\ t.completed_date = (IF c THEN today ELSE None)
       /\ \A t \in tasks' : (t.completed_date # None) <=> (t.completed = 1)]_vars

\* C4's case: a task completed on a later day than it was inserted, next to a
\* task that is open, has no completed_date and had its comments updated
C4_Witness ==
    \E t1, t2 \in tasks :
       /\ t1.completed = 1 /\ t1.completed_date = MaxDate
       /\ t2.completed = 0 /\ t2.completed_date = None /\ t2.comments = "ok"

(***************************************************************************)
(* Task listings of a caller who is not management.                        *)
(***************************************************************************)
UserIdArgs == {None, 1, 2, 3}

assigned_to_of(tid) == (CHOOSE t \in tasks : t.id = tid).assigned_to

\* C5: for a caller who is not management no task listing (get_project_tasks,
\* get_task_schedule, the query of my_tasks) returns a task assigned to anyone
\* but the user id asked with, and with no user id each listing is empty.
C5_SiteListsOwnTasksOnly ==
    \A uid \in UserIdArgs :
       /\ \A pid \in ProjectIdArgs :
             \A r \in get_project_tasks(tasks, employees, pid, uid, FALSE) :
                uid # None /\ assigned_to_of(r.id) = uid
       /\ \A d \in {None} \cup Dates :
             \A r \in get_task_schedule(tasks, projects, companies, employees,
                                        uid, FALSE, d) :
                uid # None /\ assigned_to_of(r.id) = uid
       /\ \A r \in my_tasks_query(tasks, projects, employees, uid) :
             uid # None /\ assigned_to_of(r.id) = uid

\* C5's case: one project holds a task of employee 1 and a task of nobody; the
\* listings of employee 1 hold the first alone, the listing of employee 2 is
\* empty, and management is listed both
C5_Witness ==
    \E t1, t2 \in tasks :
       /\ t1.project_id = t2.project_id
       /\ t1.assigned_to = 1 /\ t2.assigned_to = None
       /\ {r.id : r \in get_project_tasks(tasks, employees, t1.project_id, 1, FALSE)}
             = {t1.id}
       /\ get_project_tasks(tasks, employees, t1.project_id, 2, FALSE) = {}
       /\ {r.id : r \in get_project_tasks(tasks, employees, t1.project_id, None, TRUE)}
             = {t1.id, t2.id}
       /\ {r.id : r \in get_task_schedule(tasks, projects, companies, employees,
                                          1, FALSE, None)} = {t1.id}
       /\ {r.id : r \in my_tasks_query(tasks, projects, employees, 1)} = {t1.id}

(***************************************************************************)
(* Unique names: INSERT OR IGNORE.                                         *)
(***************************************************************************)
NamesUnique(table) == \A x, y \in table : x.name = y.name => x = y

\* C9: add_company with the name of an existing company and add_employee with
\* the name of an existing employee leave the table as it was, and so do the
\* seed calls of init_db on a table that holds the seed names; names stay
\* unique and no existing employee's role or pin changes.
C9_DuplicateNameIsNoOp ==
    [][/\ \A n \in CompanyNames :
             (add_company(n) /\ \E c \in companies : c.name = n)
                => companies' = companies
       /\ \A n \in SeedNames \cup NewEmployeeNames, r \in Roles,
             p \in {NoneStr, "0000", "1234"} :
             (add_employee(n, r, p) /\ \E e \in employees : e.name = n)
                => employees' = employees
       /\ init_db =>
             \A e \in employees : e \in employees'
       /\ \A e \in employees : \E f \in employees' :
             f.id = e.id /\ f.name = e.name /\ f.role = e.role /\ f.pin = e.pin
       /\ NamesUnique(companies') /\ NamesUnique(employees')]_vars

\* C9's case: a company exists, so does an added employee, and the employee
\* "Jaco Kotze" of an earlier database still has the role and the pin it had
\* before init_db seeded that name
C9_Witness ==
    /\ companies # {}
    /\ \E e \in employees : e.name \in NewEmployeeNames
    /\ \E e \in employees :
          e.name = "Jaco Kotze" /\ e.role = "site" /\ e.pin = NoneStr
    /\ \E e \in employees : e.name = "Craig Brooks" /\ e.pin = "5678"

(***************************************************************************)
(* Memoized reads, references, empty projects.                             *)
(***************************************************************************)
\* C3: a project without non-archived tasks has progress 0, also after
\* recalc_project_progress, and is among the rows get_projects_by_company
\* returns for its company.
C3_EmptyProjectIsListed ==
    \A p \in projects :
       TasksOf(tasks, p.id) = {} =>
          /\ p.progress = Frac(0, 1)
          /\ progress_of(tasks, p.id) = Frac(0, 1)
          /\ \E r \in get_projects_by_company_result(p.company_id) : r.id = p.id

\* C8: a call of get_companies, get_employees or get_projects_by_company
\* returns the rows as stored now, whatever was written since an earlier call.
C8_MemoizedReadsAreFresh ==
    /\ get_companies_result = select_companies(companies)
    /\ get_employees_result = select_employees(employees)
    /\ \A cid \in CompanyIdArgs :
          get_projects_by_company_result(cid) = select_projects_by_company(projects, cid)

\* C10: every project's company_id is the id of a company and every task's
\* assigned_to is unset or the id of an employee (add_project and insert_task
\* having refused every other reference).
C10_ReferencesExist ==
    /\ \A p \in projects : \E c \in companies : c.id = p.company_id
    /\ \A t \in tasks :
          t.assigned_to = None \/ \E e \in employees : e.id = t.assigned_to

(***************************************************************************)
(* The application: progress after task actions, projects offered to a     *)
(* site user, login.                                                       *)
(***************************************************************************)
\* C1: after every Add Task, every change of a Completed checkbox and every
\* Mark Complete the progress of each project is the percentage of its
\* non-archived tasks that are completed (0 without tasks).
C1_ProgressFollowsTasks ==
    \A p \in projects :
       IF TasksOf(tasks, p.id) = {}
       THEN p.progress = Frac(0, 1)
       ELSE IsPercent(p.progress,
                      Cardinality({t \in TasksOf(tasks, p.id) : t.completed = 1}),
                      Cardinality(TasksOf(tasks, p.id)))

\* C6: while a user who is not management is logged in, every project the
\* sidebar offers for a company (and so every project that can become
\* project_id) has that user as its owner.
C6_SiteIsOfferedOwnProjectsOnly ==
    (user # NoneStr /\ ~is_management) =>
       \A c \in companies :
          \A r \in select_projects_by_company(projects, c.id) : r.owner_user = user

\* C7: a press of Login logs in iff the entered PIN equals the stored pin of
\* the selected, active employee; then the session holds that employee's name,
\* id and role, and otherwise user, user_id and role stay unset.
C7_LoginIffPinMatches ==
    [][\A u \in SeedNames \cup NewEmployeeNames \cup {"admin"}, pin \in EnteredPins :
          login_page(u, pin) =>
             LET match == {e \in employees' :
                             e.name = u /\ e.active = 1 /\ e.pin = pin}
             IN  /\ match # {} =>
                       /\ user' = u
                       /\ \E e \in match : user_id' = e.id /\ role' = e.role
                 /\ match = {} =>
                       user' = NoneStr /\ user_id' = None /\ role' = NoneStr]_vars

\* C7's case: an employee added with role site and PIN 0000 is logged in, the
\* session holding the name, the id and the role of that row
C7_Witness ==
    /\ user \in NewEmployeeNames
    /\ role = "site"
    /\ \E e \in employees :
          e.name = user /\ e.id = user_id /\ e.role = role /\ e.pin = "0000"

(***************************************************************************)
(* Writes of a session whose role is not management.                       *)
(***************************************************************************)
\* C11: in a run of a session whose role is not management none of Add
\* Company, Add Project, Manage Employees/Add, Add Task and Update Due Date
\* acts; companies, projects and employees stay as they are, no task is
\* inserted and no due date changes; a task that changes is assigned to the
\* logged-in user and changes in its completion, comments or photo only.
C11_SiteSessionWrites ==
    [][role # "management" =>
          /\ \A n \in CompanyNames : ~AddCompany(n)
          /\ \A n \in ProjectNames : ~AddProject(n)
          /\ \A n \in NewEmployeeNames, r \in Roles : ~AddEmployee(n, r, "0000")
          /\ \A e \in SeedNames \cup NewEmployeeNames, d \in Dates : ~AddTask(e, d)
          /\ \A tid \in 1..MaxTasks, d \in Dates : ~ActiveDueDate(tid, d)
          /\ companies' = companies
          /\ projects' = projects
          /\ employees' = employees
          /\ {t.id : t \in tasks'} = {t.id : t \in tasks}
          /\ \A t \in tasks, t2 \in tasks' :
                t2.id = t.id =>
                   /\ t2.project_id = t.project_id
                   /\ t2.assigned_to = t.assigned_to
                   /\ t2.due_date = t.due_date
                   /\ t2.archived = t.archived
                   /\ t2 # t => (user # NoneStr /\ t.assigned_to = user_id)]_vars

\* C11's case: a site user is logged in and has completed, commented and
\* photographed the task assigned to them, next to a task of another employee
\* that is as it was inserted
C11_Witness ==
    /\ role = "site"
    /\ user \in NewEmployeeNames
    /\ \E t1, t2 \in tasks :
          /\ t1.assigned_to = user_id
          /\ t1.completed = 1 /\ t1.comments = "ok" /\ t1.photo_path # ""
          /\ t2.assigned_to # user_id
          /\ t2.completed = 0 /\ t2.comments = "" /\ t2.photo_path = ""

(***************************************************************************)
(* The project a session has selected.                                     *)
(***************************************************************************)
\* C12: whenever the session's project_id is set it is the id of a
\* non-archived project whose company_id is the session's company_id, also
\* after a switch to a company without projects and after a logout followed
\* by the login of another user.
C12_SelectedProjectIsOfCompany ==
    project_id # None =>
       \E p \in projects :
          p.id = project_id /\ p.archived = 0 /\ p.company_id = company_id
====
